---- MODULE Spec2Model ----
(***************************************************************************)
(* A model of scraper.py: one run of main().  The run constructs the       *)
(* JobScraper, probes the number of result pages (get_total_pages),        *)
(* scrapes every page (scrape_jobs, extract_job_details), renders the      *)
(* records (create_markdown_content) and replaces the remote document      *)
(* (update_google_doc).  Every outbound call (fetch_page, documents().get, *)
(* documents().batchUpdate) and every time.sleep is one step; what the     *)
(* network answers is chosen at the step.                                  *)
(***************************************************************************)
EXTENDS Integers, Sequences, FiniteSets, TLC

\* The site serves result cards on pages 1..MaxPage only.
MaxPage == 2
\* The most cards on one probed page, and the most cards the page loop of
\* scrape_jobs is served over all its pages.
MaxCards == 4
\* The largest endIndex of the remote document's last element.
MaxEndIndex == 3

VARIABLES
    pc,               \* position of the run in main()
    exit_code,        \* -1 while running, then the code of sys.exit / 0 on return
    fetched,          \* fetch_page has been called at least once
    scraped,          \* what scrape_jobs returned to main ("running" before)
    updated,          \* what update_google_doc returned to main ("uncalled" before)
    initial_soup,     \* scrape_jobs: initial_soup ("unfetched" before)
    job_soup,         \* extract_job_details: what the latest detail fetch gave
    soup,             \* result of the latest fetch_page of a search page
    probe_page,       \* get_total_pages: page
    total_pages,      \* scrape_jobs: total_pages (-1 before get_total_pages returns)
    page,             \* scrape_jobs: page
    job_items,        \* scrape_jobs: job_items of the page being processed
    item,             \* scrape_jobs: position of the for loop in job_items
    total_jobs_found, \* scrape_jobs: total_jobs_found
    failed_jobs,      \* scrape_jobs: failed_jobs
    jobs,             \* self.jobs
    attempted,        \* pages fetched by the page loop of scrape_jobs, in order,
                      \* each with whether its fetch failed
    seen,             \* cards found by the page loop of scrape_jobs, in order:
                      \* the place of each and whether it has a title and a link
    delays,           \* pages after which the page loop executed time.sleep(2)
    doc_id,           \* update_google_doc: doc_id ("unread" before os.getenv)
    end_index,        \* update_google_doc: end_index
    doc_calls,        \* calls sent to docs_service.documents(), in order
    probe_log         \* pages probed by get_total_pages with what each returned

vars == <<pc, exit_code, fetched, scraped, updated, initial_soup, job_soup, soup, probe_page, total_pages, page, job_items,
          item, total_jobs_found, failed_jobs, jobs, attempted, seen, delays,
          doc_id, end_index, doc_calls, probe_log>>

scrape_vars == <<page, job_items, item, total_jobs_found, failed_jobs, jobs,
                 attempted, seen, delays>>
doc_vars == <<doc_id, end_index, doc_calls>>

----------------------------------------------------------------------------
(* fetch_page and what a search page holds *)

\* fetch_page returns None on any exception.
None == [none |-> TRUE]

\* A result card: whether it has the h2 title, and inside it the primary link.
Cards == {[title |-> TRUE, link |-> TRUE],
          [title |-> TRUE, link |-> FALSE],
          [title |-> FALSE, link |-> FALSE]}

RECURSIVE SeqsUpTo(_, _)
SeqsUpTo(S, n) ==
    IF n = 0 THEN {<<>>}
    ELSE LET shorter == SeqsUpTo(S, n - 1)
         IN shorter \cup {Append(s, x) : s \in {t \in shorter : Len(t) = n - 1}, x \in S}

\* A parsed search page: the "page not available" text, the SearchResultCard
\* articles, the SearchNoResults div, a SearchResultList div without articles.
SearchPage(marker, cards, noResults, emptyList) ==
    [marker |-> marker, cards |-> cards, noResults |-> noResults, emptyList |-> emptyList]

\* What fetch_page can return for a search page holding at most n cards.  A page
\* that holds cards has neither the no-results div nor an empty result list.
SearchPages(n) ==
    {SearchPage(m, <<>>, nr, el) : m \in BOOLEAN, nr \in BOOLEAN, el \in BOOLEAN}
      \cup {SearchPage(m, c, FALSE, FALSE) : m \in BOOLEAN, c \in SeqsUpTo(Cards, n) \ {<<>>}}

\* scrape_jobs reads only the cards of a page.
ResultPages(n) == {SearchPage(FALSE, c, FALSE, FALSE) : c \in SeqsUpTo(Cards, n)}

\* The checks in the other order: the cards and the empty-results rules first.
ProbeOutcomeCardsFirst(s) ==
    IF s = None THEN "failed"
    ELSE IF s.cards = <<>> /\ s.noResults THEN "no_results"
    ELSE IF s.cards = <<>> /\ s.emptyList THEN "empty_container"
    ELSE IF s.marker THEN "not_available"
    ELSE "found"

\* get_total_pages, lines 218-243: what one probed page makes the loop do.  The
\* checks run in the order of the code: fetch failure, the "page not available"
\* text, then (only without cards) the no-results div and the empty result list.
ProbeOutcome(s) ==
    IF s = None THEN "failed"
    ELSE IF s.marker THEN "not_available"
    ELSE IF s.cards = <<>> /\ s.noResults THEN "no_results"
    ELSE IF s.cards = <<>> /\ s.emptyList THEN "empty_container"
    ELSE "found"

\* What fetch_page can answer when get_total_pages asks for page p: beyond
\* MaxPage the site has no cards and ends the probe.
ProbeFetch(p) ==
    IF p <= MaxPage THEN {None} \cup SearchPages(MaxCards)
    ELSE {None} \cup {s \in SearchPages(0) : ProbeOutcome(s) # "found"}

\* What fetch_page can answer when the page loop asks for page p, the site having
\* served n cards so far.
PageFetch(p, n) ==
    IF p <= MaxPage THEN {None} \cup ResultPages(MaxCards - n)
    ELSE {None} \cup ResultPages(0)

\* What fetch_page and extract_job_text give for a detail page: no page, a page
\* without the data-jobad body, a page with description text.
DetailResults == {"failed", "no_body", "text"}

----------------------------------------------------------------------------
(* main(), JobScraper.__init__ *)

Init ==
    /\ pc = "main"
    /\ exit_code = -1
    /\ fetched = FALSE
    /\ scraped = "uncalled"
    /\ updated = "uncalled"
    /\ initial_soup = "unfetched"
    /\ job_soup = "unfetched"
    /\ soup = None
    /\ probe_page = 0
    /\ total_pages = -1
    /\ page = 0
    /\ job_items = <<>>
    /\ item = 0
    /\ total_jobs_found = 0
    /\ failed_jobs = 0
    /\ jobs = <<>>
    /\ attempted = <<>>
    /\ seen = <<>>
    /\ delays = {}
    /\ doc_id = "unread"
    /\ end_index = 0
    /\ doc_calls = <<>>
    /\ probe_log = <<>>

\* sys.exit(code) in main, or main returning (code 0).
Exit(code) ==
    /\ pc' = "exit"
    /\ exit_code' = code

\* main lines 434-436 up to the first fetch: JobScraper() runs setup_google_docs,
\* which raises when GOOGLE_SERVICE_ACCOUNT is missing or unusable (main's except
\* exits 1); otherwise scrape_jobs starts (lines 264-266) and calls
\* get_total_pages (line 212).
JobScraper_init ==
    /\ pc = "main"
    /\ \E credentials \in BOOLEAN :
         IF credentials
         THEN /\ pc' = "probe"
              /\ scraped' = "running"
              /\ probe_page' = 1
              /\ page' = 1
              /\ UNCHANGED exit_code
         ELSE /\ Exit(1)
              /\ UNCHANGED <<scraped, probe_page, page>>
    /\ UNCHANGED <<fetched, updated, initial_soup, job_soup, soup, total_pages, job_items, item, total_jobs_found,
                   failed_jobs, jobs, attempted, seen, delays, doc_vars, probe_log>>

----------------------------------------------------------------------------
(* get_total_pages *)

\* The unavailable page counted.
BackUpNot(p) == p

\* Line 226: the page that is not available is not counted.
BackUp(p) == p - 1

\* The value of page when the loop breaks on outcome o at page p.
PageAtBreak(o, p) == IF o = "not_available" THEN BackUp(p) ELSE p

\* What the probe log keeps of a probed page.
Probed(p, s) ==
    IF s = None
    THEN [page |-> p, failed |-> TRUE, marker |-> FALSE, cards |-> 0,
          noResults |-> FALSE, emptyList |-> FALSE]
    ELSE [page |-> p, failed |-> FALSE, marker |-> s.marker, cards |-> Len(s.cards),
          noResults |-> s.noResults, emptyList |-> s.emptyList]

\* One pass of the while loop, lines 214-244; on a break also lines 249-251 and
\* the return into scrape_jobs (line 269).
ProbeStep(record) ==
    /\ pc = "probe"
    /\ \E s \in ProbeFetch(probe_page) :
         /\ soup' = s
         /\ fetched' = TRUE
         /\ probe_log' = IF record THEN Append(probe_log, Probed(probe_page, s))
                         ELSE probe_log
         /\ IF ProbeOutcome(s) = "found"
            THEN /\ probe_page' = probe_page + 1
                 /\ pc' = "probe_sleep"
                 /\ UNCHANGED total_pages
            ELSE /\ probe_page' = PageAtBreak(ProbeOutcome(s), probe_page)
                 /\ total_pages' = probe_page'
                 /\ pc' = "initial"
    /\ UNCHANGED <<exit_code, scraped, updated, initial_soup, job_soup, scrape_vars,
                   doc_vars>>

get_total_pages == ProbeStep(FALSE)

get_total_pages_logged == ProbeStep(TRUE)

\* Line 247: time.sleep(1) before the next probe.
probe_sleep ==
    /\ pc = "probe_sleep"
    /\ pc' = "probe"
    /\ UNCHANGED <<exit_code, fetched, scraped, updated, initial_soup, job_soup, soup,
                   probe_page, total_pages, scrape_vars, doc_vars, probe_log>>

----------------------------------------------------------------------------
(* scrape_jobs, extract_job_details *)

\* Lines 273-277: the fetch of the first page for the job count; a failure makes
\* scrape_jobs return False, and main exits 1 (lines 436-438).
initial_fetch ==
    /\ pc = "initial"
    /\ fetched' = TRUE
    /\ \E ok \in BOOLEAN :
         IF ok
         THEN /\ initial_soup' = "page"
              /\ pc' = "loop"
              /\ UNCHANGED <<exit_code, scraped>>
         ELSE /\ initial_soup' = "None"
              /\ scraped' = "False"
              /\ Exit(1)
    /\ UNCHANGED <<updated, job_soup, soup, probe_page, total_pages, scrape_vars,
                   doc_vars, probe_log>>

\* The cards of page p as the page loop finds them: the place of each, and whether
\* the card holds both a title and a link.
Found(p, cards) ==
    [i \in 1..Len(cards) |->
        [page |-> p, index |-> i, complete |-> (cards[i].title /\ cards[i].link)]]

\* A failed fetch ending scrape_jobs with False (main then exits 1).
FailedPageAborts ==
    /\ scraped' = "False"
    /\ Exit(1)
    /\ UNCHANGED page

\* Lines 296-299: the fetch of a page failed; the loop goes on with the next page.
FailedPage ==
    /\ pc' = "loop"
    /\ page' = page + 1
    /\ UNCHANGED <<exit_code, scraped>>

\* Lines 289-308: the while test, the fetch of a page and the look for its cards.
scrape_page ==
    /\ pc = "loop"
    /\ page <= total_pages
    /\ fetched' = TRUE
    /\ \E s \in PageFetch(page, Len(seen)) :
         /\ soup' = s
         /\ attempted' = Append(attempted, [page |-> page, failed |-> (s = None)])
         /\ IF s = None
            THEN /\ FailedPage
                 /\ UNCHANGED <<job_items, item, seen>>
            ELSE /\ job_items' = s.cards
                 /\ seen' = seen \o Found(page, s.cards)
                 /\ UNCHANGED <<exit_code, scraped>>
                 /\ IF s.cards = <<>>
                    THEN /\ pc' = "loop"
                         /\ page' = page + 1
                         /\ UNCHANGED item
                    ELSE /\ pc' = "cards"
                         /\ item' = 1
                         /\ UNCHANGED page
    /\ UNCHANGED <<updated, initial_soup, job_soup, probe_page, total_pages,
                   total_jobs_found, failed_jobs, jobs, delays, doc_vars, probe_log>>

\* Lines 151-161: a card gives a record only with a title and a link in it.
HasRecord(card) == card.title /\ card.link

\* Lines 183-188: the description is empty unless the detail page was fetched
\* and its body found.
JobText(detail) == IF detail = "text" THEN "description" ELSE ""

\* Lines 190-197: the record of the card at place i of page p.  The title and the
\* url stand for the card they were read from; company, location and job_id, which
\* no step reads, are left out.
JobDetails(p, i, detail) == [title |-> <<p, i>>, url |-> <<p, i>>, text |-> JobText(detail)]

\* The record put in front of the list.
AppendJobFirst(js, job) == <<job>> \o js

\* Line 314.
AppendJob(js, job) == Append(js, job)

\* Lines 310-327: one pass of the for loop (extract_job_details with its fetch of
\* the detail page); after the last card the delay test and page += 1.
extract_job_details ==
    /\ pc = "cards"
    /\ \/ /\ ~HasRecord(job_items[item])
          /\ failed_jobs' = failed_jobs + 1
          /\ UNCHANGED <<jobs, total_jobs_found, fetched, job_soup>>
       \/ /\ HasRecord(job_items[item])
          /\ fetched' = TRUE
          /\ \E detail \in DetailResults :
               /\ job_soup' = detail
               /\ jobs' = AppendJob(jobs, JobDetails(page, item, detail))
          /\ total_jobs_found' = total_jobs_found + 1
          /\ UNCHANGED failed_jobs
    /\ IF item < Len(job_items)
       THEN /\ item' = item + 1
            /\ UNCHANGED <<pc, page>>
       ELSE /\ UNCHANGED item
            /\ IF page < total_pages
               THEN /\ pc' = "page_sleep"
                    /\ UNCHANGED page
               ELSE /\ pc' = "loop"
                    /\ page' = page + 1
    /\ UNCHANGED <<exit_code, scraped, updated, initial_soup, soup, probe_page,
                   total_pages, job_items, attempted, seen, delays, doc_vars, probe_log>>

\* Lines 326-327: time.sleep(2), then page += 1.
page_sleep ==
    /\ pc = "page_sleep"
    /\ delays' = delays \cup {page}
    /\ page' = page + 1
    /\ pc' = "loop"
    /\ UNCHANGED <<exit_code, fetched, scraped, updated, initial_soup, job_soup, soup,
                   probe_page, total_pages, job_items, item, total_jobs_found,
                   failed_jobs, jobs, attempted, seen, doc_vars, probe_log>>

\* Anything but False taken for true.
TruthyNotFalse(v) == v # "False"

\* Python truth of a returned value ("True", "False" or "None"): main tests
\* "if not scraper.scrape_jobs()" and "if not scraper.update_google_doc()".
Truthy(v) == v = "True"

\* Line 332.
ScrapeResult(found) == IF found > 0 THEN "True" ELSE "False"

\* Lines 329-332 and main lines 436-439: the page loop is over, scrape_jobs returns.
\* The last page and its cards go with the frame of scrape_jobs; the counters
\* stay as they were returned.
scrape_return ==
    /\ pc = "loop"
    /\ page > total_pages
    /\ scraped' = ScrapeResult(total_jobs_found)
    /\ IF Truthy(scraped')
       THEN /\ pc' = "update"
            /\ UNCHANGED exit_code
       ELSE Exit(1)
    /\ soup' = None
    /\ job_items' = <<>>
    /\ item' = 0
    /\ UNCHANGED <<fetched, updated, initial_soup, job_soup, probe_page, total_pages,
                   page, total_jobs_found, failed_jobs, jobs, attempted, seen, delays,
                   doc_vars, probe_log>>

----------------------------------------------------------------------------
(* create_markdown_content, update_google_doc *)

\* Lines 351-356: the lines written for one record.
Section(job) ==
    <<[line |-> "##", value |-> job.title],
      [line |-> "URL adresa", value |-> job.url],
      [line |-> "Text inzeratu", value |-> job.text],
      [line |-> "---", value |-> ""]>>

RECURSIVE Sections(_)
Sections(js) == IF js = <<>> THEN <<>> ELSE Section(Head(js)) \o Sections(Tail(js))

\* Lines 347-358: the title, the number of records, then one section per record.
create_markdown_content(js) ==
    <<[line |-> "#", value |-> "Python pracovni nabidky"],
      [line |-> "Pocet nalezenych nabidek", value |-> Len(js)]>> \o Sections(js)

\* What documents().get can return: the body's content list is missing, empty,
\* or ends with an element without or with an endIndex (0: none).
Documents ==
    {[hasContent |-> FALSE, content |-> <<>>], [hasContent |-> TRUE, content |-> <<>>]}
      \cup {[hasContent |-> TRUE, content |-> <<e>>] : e \in {0} \cup (2..MaxEndIndex)}

\* Line 388: the endIndex of the last element, 1 by default; -1 stands for the
\* IndexError of [-1] on an empty list.
EndIndexOf(document) ==
    LET content == IF document.hasContent THEN document.content ELSE <<0>>
    IN IF content = <<>> THEN -1
       ELSE IF content[Len(content)] = 0 THEN 1 ELSE content[Len(content)]

\* The insert before the delete.
BatchRequestsInsertFirst(end, text) ==
    <<[request |-> "insertText", startIndex |-> 1, endIndex |-> 1, text |-> text],
      [request |-> "deleteContentRange", startIndex |-> 1, endIndex |-> end - 1, text |-> <<>>]>>

\* Lines 392-407: the requests of the batch.
BatchRequests(end, text) ==
    <<[request |-> "deleteContentRange", startIndex |-> 1, endIndex |-> end - 1, text |-> <<>>],
      [request |-> "insertText", startIndex |-> 1, endIndex |-> 1, text |-> text]>>

\* The identifier never found missing.
DocIdNeverMissing(id) == FALSE

\* Lines 369-372.
DocIdMissing(id) == id = ""

\* update_google_doc returns v to main (line 439), which exits 1 unless v is true
\* and otherwise returns.
UpdateReturns(v) ==
    /\ updated' = v
    /\ Exit(IF Truthy(v) THEN 0 ELSE 1)

\* Lines 369-389: os.getenv('GOOGLE_DOC_ID'), then documents().get.
update_google_doc_get ==
    /\ pc = "update"
    /\ \E id \in {"", "doc"} :
         /\ doc_id' = id
         /\ IF DocIdMissing(id)
            THEN /\ UpdateReturns("None")
                 /\ UNCHANGED <<end_index, doc_calls>>
            ELSE /\ doc_calls' = Append(doc_calls, [call |-> "get", requests |-> <<>>])
                 /\ \/ /\ UpdateReturns("False")
                       /\ UNCHANGED end_index
                    \/ \E document \in Documents :
                         IF EndIndexOf(document) = -1
                         THEN /\ UpdateReturns("False")
                              /\ UNCHANGED end_index
                         ELSE /\ end_index' = EndIndexOf(document)
                              /\ pc' = "write"
                              /\ UNCHANGED <<exit_code, updated>>
    /\ UNCHANGED <<fetched, scraped, initial_soup, job_soup, soup, probe_page,
                   total_pages, scrape_vars, probe_log>>

\* Lines 392-419: documents().batchUpdate with the two requests.
update_google_doc_write ==
    /\ pc = "write"
    /\ doc_calls' = Append(doc_calls,
           [call |-> "batchUpdate",
            requests |-> BatchRequests(end_index, create_markdown_content(jobs))])
    /\ \E ok \in BOOLEAN : UpdateReturns(IF ok THEN "True" ELSE "False")
    /\ UNCHANGED <<fetched, scraped, initial_soup, job_soup, soup, probe_page,
                   total_pages, scrape_vars, doc_id, end_index, probe_log>>

----------------------------------------------------------------------------

Next ==
    \/ JobScraper_init
    \/ get_total_pages
    \/ probe_sleep
    \/ initial_fetch
    \/ scrape_page
    \/ extract_job_details
    \/ page_sleep
    \/ scrape_return
    \/ update_google_doc_get
    \/ update_google_doc_write

Spec == Init /\ [][Next]_vars

\* get_total_pages alone, with the log of what it probed.
NextProbe ==
    \/ JobScraper_init
    \/ get_total_pages_logged
    \/ probe_sleep

SpecProbe == Init /\ [][NextProbe]_vars

----------------------------------------------------------------------------
(* The claims *)

Range(n) == [i \in 1..n |-> i]

Last(q) == q[Len(q)]

Returned(v) == v \in {"True", "False", "None"}

IsBatchUpdate(c) == c.call = "batchUpdate"

IsSectionTitle(l) == l.line = "##"

IsCountLine(l) == l.line = "Pocet nalezenych nabidek"

IsComplete(f) == f.complete

\* The places <<page, index>> of the cards found that have a title and a link.
PlacesWithRecord ==
    LET kept == SelectSeq(seen, IsComplete)
    IN [i \in 1..Len(kept) |-> <<kept[i].page, kept[i].index>>]

JobPlaces == [i \in 1..Len(jobs) |-> jobs[i].url]

\* C1: a finished run has exit code 0 exactly when at least one listing was
\* collected and update_google_doc returned True; otherwise the code is 1.
C1_ExitCode ==
    pc = "exit" =>
        /\ exit_code \in {0, 1}
        /\ exit_code = 0 <=> (Len(jobs) >= 1 /\ updated = "True")

C1_Witness ==
    /\ pc = "exit"
    /\ exit_code = 0
    /\ Len(jobs) >= 1
    /\ updated = "True"

\* C2: once the write stage is reached, the calls sent to the document service
\* are the get and then one batchUpdate whose requests are a deleteContentRange
\* over [1, end_index - 1] followed by an insertText at index 1 with the rendered
\* text; before the write no batch has been sent, and never more than one.
C2_SingleBatch ==
    /\ Len(SelectSeq(doc_calls, IsBatchUpdate)) <= 1
    /\ pc = "write" => Len(SelectSeq(doc_calls, IsBatchUpdate)) = 0
    /\ (pc = "exit" /\ end_index >= 1) =>
          /\ Len(doc_calls) = 2
          /\ doc_calls[1].call = "get"
          /\ doc_calls[2].call = "batchUpdate"
          /\ Len(doc_calls[2].requests) = 2
          /\ doc_calls[2].requests[1].request = "deleteContentRange"
          /\ doc_calls[2].requests[1].startIndex = 1
          /\ doc_calls[2].requests[1].endIndex = end_index - 1
          /\ doc_calls[2].requests[2].request = "insertText"
          /\ doc_calls[2].requests[2].startIndex = 1
          /\ doc_calls[2].requests[2].text = create_markdown_content(jobs)

C2_Witness ==
    /\ pc = "exit"
    /\ end_index = 3
    /\ Len(doc_calls) = 2
    /\ Len(jobs) = 2

\* C3 as stated: a run that finds GOOGLE_DOC_ID missing exits non-zero having
\* issued no fetch_page and no call to the document service.
C3_NoFetchBeforeAbort ==
    (pc = "exit" /\ doc_id = "") =>
        /\ exit_code # 0
        /\ ~fetched
        /\ doc_calls = <<>>

\* C3 amended: a run that finds GOOGLE_DOC_ID missing exits non-zero having
\* issued no call to the document service; it finds it missing only after
\* scrape_jobs has fetched pages and collected at least one listing.
C3_NoDocCallAfterScrape ==
    (pc = "exit" /\ doc_id = "") =>
        /\ exit_code = 1
        /\ doc_calls = <<>>
        /\ fetched
        /\ scraped = "True"
        /\ Len(jobs) >= 1

C3_Witness ==
    /\ pc = "exit"
    /\ doc_id = ""
    /\ Len(attempted) >= 1

\* What C4 says of scrape_jobs once it has returned: every page 1..total_pages
\* was fetched by the page loop, in order, and the records are those of the cards
\* of the pages whose fetch succeeded.
AllPagesAttempted ==
    /\ [i \in 1..Len(attempted) |-> attempted[i].page] = Range(total_pages)
    /\ JobPlaces = PlacesWithRecord
    /\ \A i \in 1..Len(attempted) :
         attempted[i].failed => \A k \in 1..Len(seen) : seen[k].page # attempted[i].page

\* C4 as stated: whatever search-page fetches fail, scrape_jobs attempts every
\* page 1..total_pages and appends the cards of the pages that were fetched.
C4_NeverAborts == Returned(scraped) => AllPagesAttempted

\* C4 amended: the same once the fetch of the first page for the job count
\* (lines 273-277) has succeeded.
C4_LoopNeverAborts == (Returned(scraped) /\ initial_soup = "page") => AllPagesAttempted

C4_Witness ==
    /\ scraped = "True"
    /\ initial_soup = "page"
    /\ Len(attempted) = 2
    /\ attempted[1].failed
    /\ Len(jobs) >= 1

ProbeDone == pc = "initial"

\* The highest probed page that was fetched and taken for a results page (the
\* loop went on after it), 0 without one.
LastValidated ==
    LET accepted == {i \in 1..Len(probe_log) :
                        /\ ~probe_log[i].failed
                        /\ ~probe_log[i].marker
                        /\ ~(probe_log[i].cards = 0 /\ probe_log[i].noResults)
                        /\ ~(probe_log[i].cards = 0 /\ probe_log[i].emptyList)}
    IN IF accepted = {} THEN 0
       ELSE probe_log[CHOOSE i \in accepted : \A j \in accepted : j <= i].page

\* C5 as stated: get_total_pages returns the highest page that was fetched and
\* accepted as a results page, so a page whose fetch failed is not counted.
C5_LastValidatedPage == ProbeDone => total_pages = LastValidated

\* Pages 1..n-1 of the probe came with at least one card and without the "page
\* not available" text, page n with that text.
MarkerAfterResults(n) ==
    /\ Len(probe_log) >= n
    /\ \A i \in 1..(n - 1) :
         /\ ~probe_log[i].failed
         /\ ~probe_log[i].marker
         /\ probe_log[i].cards >= 1
    /\ ~probe_log[n].failed
    /\ probe_log[n].marker

\* C6: when pages 1..n-1 come with cards and page n with the "page not
\* available" text (n >= 2), get_total_pages has returned after exactly the n
\* probes of pages 1, 2, ..., n, with n - 1.
C6_MarkerBacksUp ==
    \A n \in 2..(MaxPage + 1) :
        MarkerAfterResults(n) =>
            /\ ProbeDone
            /\ [i \in 1..Len(probe_log) |-> probe_log[i].page] = Range(n)
            /\ total_pages = n - 1

C6_Witness ==
    /\ ProbeDone
    /\ MarkerAfterResults(3)
    /\ total_pages = 2

\* The last probed page has the "page not available" text and also no cards
\* with the no-results div or an empty result list.
BothStopRules ==
    /\ ProbeDone
    /\ ~Last(probe_log).failed
    /\ Last(probe_log).marker
    /\ Last(probe_log).cards = 0
    /\ Last(probe_log).noResults \/ Last(probe_log).emptyList

\* C8 as stated: a page meeting both stop rules ends the probe by the
\* empty-results rule, so the page is not backed up.
C8_CardsCheckedFirst == BothStopRules => total_pages = Last(probe_log).page

\* C8 amended: the "page not available" text is checked before the cards, so a
\* page meeting both stop rules ends the probe by the marker rule, backed up
\* one page.
C8_MarkerCheckedFirst == BothStopRules => total_pages = Last(probe_log).page - 1

C8_Witness ==
    /\ BothStopRules
    /\ Len(probe_log) = 2

\* C7: once scrape_jobs has returned, the records are, in the order the cards
\* were found, exactly those of the cards with a title and a link, and the
\* rendered text has one section per record in that order and a count line
\* equal to the number of sections; while scrape_jobs runs the records are those
\* of the first such cards, and the record of a card whose detail fetch failed
\* is appended with an empty description.
C7_RecordsInOrder ==
    /\ Len(jobs) <= Len(PlacesWithRecord)
    /\ JobPlaces = SubSeq(PlacesWithRecord, 1, Len(jobs))
    /\ job_soup = "failed" =>
          /\ jobs # <<>>
          /\ Last(jobs).text = ""
    /\ Returned(scraped) =>
          LET content == create_markdown_content(jobs)
              titles == SelectSeq(content, IsSectionTitle)
              counts == SelectSeq(content, IsCountLine)
          IN /\ JobPlaces = PlacesWithRecord
             /\ total_jobs_found = Len(jobs)
             /\ [i \in 1..Len(titles) |-> titles[i].value] = JobPlaces
             /\ Len(counts) = 1
             /\ counts[1].value = Len(titles)

\* Two pages of two cards, the last detail fetch failed: four sections.
C7_Witness ==
    /\ scraped = "True"
    /\ JobPlaces = << <<1, 1>>, <<1, 2>>, <<2, 1>>, <<2, 2>> >>
    /\ job_soup = "failed"
    /\ jobs[4].text = ""
    /\ \A i \in 1..3 : jobs[i].text # ""
    /\ Len(SelectSeq(create_markdown_content(jobs), IsSectionTitle)) = 4

\* C9 as stated: the page loop sleeps after every page but the last, whatever
\* the page gave, and never after the last.
C9_DelayBetweenPages ==
    (Returned(scraped) /\ initial_soup = "page") => delays = 1..(total_pages - 1)

\* C10 as stated: the deleteContentRange sent is a non-empty range.
C10_DeleteRangeNonEmpty ==
    \A i \in 1..Len(doc_calls) :
        doc_calls[i].call = "batchUpdate" =>
            doc_calls[i].requests[1].startIndex < doc_calls[i].requests[1].endIndex

====
